---- MODULE Spec2Model ----
(***************************************************************************)
(* Model of the MrBeast YouTube insights repository.                       *)
(*                                                                         *)
(*   src/app.py                    the Streamlit dashboard script: the     *)
(*                                 cached loader, add_clusters (KMeans on  *)
(*                                 Views/Likes/Comments) and the           *)
(*                                 Performance Prediction block            *)
(*   src/src/scripts/fetch_data.py YouTubeToCSV: the paginated fetcher     *)
(*                                                                         *)
(* Three specifications share the module:                                  *)
(*   Spec       one Streamlit process running app.py top to bottom, again  *)
(*              and again (reruns, restarts), over a fixed CSV file        *)
(*   PerfSpec   the Performance Prediction block (app.py 79-81) applied to *)
(*              an arbitrary table, the empty one included                 *)
(*   FetchSpec  YouTubeToCSV.run, statement by statement                   *)
(***************************************************************************)
EXTENDS Integers, Sequences, FiniteSets, TLC

VARIABLES
    (* ---- app.py ---- *)
    csv,            \* rows of the CSV file read by load_data
    entropy,        \* state of numpy's process-global generator
    n_clusters,     \* the n_clusters argument of the add_clusters call
    pc,             \* position of the script run
    df,             \* the table object bound to the script's name df
    rt,             \* the table object bound to rt when it is not df itself
    rtRef,          \* "none" | "df" (rt is the very object df) | "copy"
    load_cache,     \* st.cache_data store of load_data
    cluster_cache,  \* st.cache_data store of add_clusters
    features,       \* the feature matrix built by the last add_clusters body
    threshold,      \* the threshold of the last Performance block, <<sum, count>>
    firstLabels,    \* history: the labels the first add_clusters body execution
                    \* gave, and whether the body has run once or more often
    (* ---- fetch_data.py ---- *)
    fpc,            \* position inside YouTubeToCSV.run
    max_videos,     \* the max_videos argument
    channel_info,   \* result of get_channel_info
    videos,         \* the list videos of fetch_all_videos
    processed_count,
    next_page_token,
    page,           \* items of the page being processed still to be handled
    requests,       \* playlistItems().list requests issued so far
    stop,           \* which statement left the while loop
    fetched,        \* the value fetch_all_videos returned
    youtube,        \* self.youtube
    csv_path,       \* what save_to_csv returned
    result          \* what run() gave its caller

appVars == <<csv, entropy, n_clusters, pc, df, rt, rtRef, load_cache,
             cluster_cache, features, threshold, firstLabels>>
fetchVars == <<fpc, max_videos, channel_info, videos, processed_count,
               next_page_token, page, requests, stop, fetched, youtube,
               csv_path, result>>
vars == <<appVars, fetchVars>>

(***************************************************************************)
(* Bounds of the model.                                                    *)
(***************************************************************************)
MaxRows == 3
MaxSamples == 5
MaxK == 3
MaxEntropy == 1
MaxViews == 2
MaxLimit == 3
MaxPages == 3
MaxPageItems == 2

(***************************************************************************)
(* Tables (pandas DataFrames).                                             *)
(***************************************************************************)
\* A missing cell (pandas NaN).
NaN == -1

Record(v, l, c) == [Views |-> v, Likes |-> l, Comments |-> c]

\* Rows the CSV file may hold: the first MaxSamples of these.
SampleRecords ==
    << Record(1, 0, 0), Record(9, 4, 2), Record(5, 1, 1),
       Record(NaN, 1, 0), Record(4, NaN, NaN), Record(0, 0, 0),
       Record(9, NaN, 3), Record(NaN, NaN, NaN) >>

Min(a, b) == IF a < b THEN a ELSE b

Samples == { SampleRecords[i] : i \in 1..Min(MaxSamples, Len(SampleRecords)) }

SeqsUpTo(S, n) == UNION { [1..m -> S] : m \in 0..n }

\* A DataFrame: its rows, the derived columns it carries and their values.
Table(rows) == [rows |-> rows, columns |-> {}, Cluster |-> <<>>, Performance |-> <<>>]

\* A name not bound yet.
Unbound == [rows |-> <<>>, columns |-> {"unbound"}, Cluster |-> <<>>, Performance |-> <<>>]

\* No entry in a cache.
Absent == [key |-> <<>>, value |-> Unbound, present |-> FALSE]

(***************************************************************************)
(* sklearn.cluster.KMeans(n_clusters=k, random_state=42).fit_predict(X),   *)
(* as app.py 64-65 calls it: input validation, a seeded k-means++ choice   *)
(* of the initial centres among the data points, then Lloyd's iteration.   *)
(* A centre is kept exactly, as the coordinate sums and the size of its    *)
(* cluster, and distances are compared by cross-multiplication.            *)
(***************************************************************************)

\* The pseudo-random generator, reduced to what the program relies on: the
\* stream is a function of the generator's state alone.
RngNext(s) == (13 * s + 7) % 64

SeedRng(seed) == seed % 64

\* KMeans(..., random_state=42)
random_state == 42

\* Mutant of KMeansRng: random_state=None, the process-global generator.
KMeansRng_global(globalState) == globalState

\* sklearn's check_random_state for the random_state app.py passes: a fresh
\* generator seeded with it, whatever the state of the global one.
KMeansRng(globalState) == SeedRng(random_state)

\* KMeans' default iteration cap.
max_iter == 300

Zero(x) == IF x = NaN THEN 0 ELSE x

\* Mutant of Fillna0: the fillna(0) forgotten.
Fillna0_none(rows) ==
    [i \in 1..Len(rows) |-> <<rows[i].Views, rows[i].Likes, rows[i].Comments>>]

\* df[['Views', 'Likes', 'Comments']].copy().fillna(0)
Fillna0(rows) ==
    [i \in 1..Len(rows) |->
        <<Zero(rows[i].Views), Zero(rows[i].Likes), Zero(rows[i].Comments)>>]

HasNaN(X) == \E i \in 1..Len(X) : \E j \in 1..3 : X[i][j] = NaN

\* Mutant of KMeansRaises: the n_samples >= n_clusters check left out.
KMeansRaises_nocount(X, k) == Len(X) = 0 \/ HasNaN(X)

\* fit() raises ValueError: no sample, a NaN in the input, or fewer samples
\* than clusters.
KMeansRaises(X, k) == Len(X) = 0 \/ HasNaN(X) \/ Len(X) < k

Center(x) == [sum |-> x, count |-> 1]

\* count^2 times the squared distance of point x to a centre.
SqDist(x, c) ==
    LET d(j) == c.count * x[j] - c.sum[j]
    IN  d(1) * d(1) + d(2) * d(2) + d(3) * d(3)

Closer(x, c1, c2) ==
    SqDist(x, c1) * c2.count * c2.count < SqDist(x, c2) * c1.count * c1.count

RECURSIVE ArgMin(_, _, _, _)
ArgMin(x, centers, j, best) ==
    IF j > Len(centers) THEN best
    ELSE ArgMin(x, centers, j + 1,
                IF Closer(x, centers[j], centers[best]) THEN j ELSE best)

\* Mutant of Nearest: the centre's 1-based position used as the label.
Nearest_onebased(x, centers) == ArgMin(x, centers, 2, 1)

\* argmin of the distances (the first minimum), as a 0-based label.
Nearest(x, centers) == ArgMin(x, centers, 2, 1) - 1

Labels(X, centers) == [i \in 1..Len(X) |-> Nearest(X[i], centers)]

RECURSIVE SumCoord(_, _, _, _)
SumCoord(X, labels, lab, j) ==
    IF X = <<>> THEN 0
    ELSE (IF Head(labels) = lab THEN Head(X)[j] ELSE 0)
         + SumCoord(Tail(X), Tail(labels), lab, j)

Members(labels, lab) == { i \in 1..Len(labels) : labels[i] = lab }

\* The mean of a cluster's points; a cluster left without points keeps its
\* centre.
Centroid(X, labels, lab, old) ==
    IF Members(labels, lab) = {} THEN old
    ELSE [sum   |-> <<SumCoord(X, labels, lab, 1), SumCoord(X, labels, lab, 2),
                      SumCoord(X, labels, lab, 3)>>,
          count |-> Cardinality(Members(labels, lab))]

RECURSIVE Lloyd(_, _, _, _)
Lloyd(X, centers, labels, iter) ==
    LET newCenters == [j \in 1..Len(centers) |->
                          Centroid(X, labels, j - 1, centers[j])]
        newLabels  == Labels(X, newCenters)
    IN  IF newLabels = labels \/ iter >= max_iter THEN newLabels
        ELSE Lloyd(X, newCenters, newLabels, iter + 1)

\* Squared distance of point i to the nearest of the points chosen so far.
ClosestDistSq(X, chosen, i) ==
    LET c == [j \in 1..Len(chosen) |-> Center(X[chosen[j]])]
    IN  SqDist(X[i], c[ArgMin(X[i], c, 2, 1)])

RECURSIVE CumSum(_, _, _)
CumSum(X, chosen, i) ==
    IF i = 0 THEN 0 ELSE CumSum(X, chosen, i - 1) + ClosestDistSq(X, chosen, i)

\* k-means++: the next centre is drawn with probability proportional to the
\* squared distance to the centres chosen so far (searchsorted on the
\* cumulative sum).
WeightedPick(X, chosen, rng) ==
    LET pot == CumSum(X, chosen, Len(X))
    IN  IF pot = 0 THEN 1
        ELSE CHOOSE i \in 1..Len(X) :
                /\ CumSum(X, chosen, i) > rng % pot
                /\ \A h \in 1..(i - 1) : CumSum(X, chosen, h) <= rng % pot

RECURSIVE InitCenters(_, _, _, _)
InitCenters(X, k, chosen, rng) ==
    IF Len(chosen) = k THEN chosen
    ELSE InitCenters(X, k,
                     Append(chosen, IF chosen = <<>> THEN (rng % Len(X)) + 1
                                    ELSE WeightedPick(X, chosen, rng)),
                     RngNext(rng))

fit_predict(X, k, rng) ==
    LET init    == InitCenters(X, k, <<>>, rng)
        centers == [j \in 1..k |-> Center(X[init[j]])]
    IN  Lloyd(X, centers, Labels(X, centers), 1)

(***************************************************************************)
(* The Performance Prediction block, app.py 79-81.                         *)
(***************************************************************************)
RECURSIVE SumViews(_)
SumViews(rows) ==
    IF rows = <<>> THEN 0
    ELSE Zero(Head(rows).Views) + SumViews(Tail(rows))

Populated(rows) == { i \in 1..Len(rows) : rows[i].Views # NaN }

\* Mutant of Mean: floor division.
Mean_floor(rows) ==
    IF Populated(rows) = {} THEN <<0, 0>>
    ELSE <<SumViews(rows) \div Cardinality(Populated(rows)), 1>>

\* rt["Views"].mean(): pandas skips the missing cells; the mean is kept as
\* the pair <<sum, count>>, and is NaN when the count is 0.
Mean(rows) == <<SumViews(rows), Cardinality(Populated(rows))>>

\* Mutant of AtLeast: > in place of >=.
AtLeast_strict(x, thr) == x # NaN /\ thr[2] > 0 /\ x * thr[2] > thr[1]

\* x >= threshold; a comparison with NaN on either side is False.
AtLeast(x, thr) == x # NaN /\ thr[2] > 0 /\ x * thr[2] >= thr[1]

\* rt["Views"].apply(lambda x: "High" if x >= threshold else "Low")
assign_performance(rows, thr) ==
    [i \in 1..Len(rows) |-> IF AtLeast(rows[i].Views, thr) THEN "High" ELSE "Low"]

(***************************************************************************)
(* app.py, one statement group per action.                                 *)
(***************************************************************************)

\* The table the name rt denotes.
RT == IF rtRef = "df" THEN df ELSE rt

WithColumn(t, name, values) ==
    IF name = "Cluster"
    THEN [t EXCEPT !.Cluster = values, !.columns = @ \cup {"Cluster"}]
    ELSE [t EXCEPT !.Performance = values, !.columns = @ \cup {"Performance"}]

\* No page in hand.
NoPage == [left |-> 0, token |-> FALSE]

IdleFetch ==
    /\ fpc = "idle"
    /\ max_videos = 0
    /\ channel_info = "unset"
    /\ videos = <<>>
    /\ processed_count = 0
    /\ next_page_token = 0
    /\ page = NoPage
    /\ requests = 0
    /\ stop = "none"
    /\ fetched = "none"
    /\ youtube = "None"
    /\ csv_path = "none"
    /\ result = "none"

Init ==
    /\ csv \in SeqsUpTo(Samples, MaxRows)
    /\ entropy \in 0..MaxEntropy
    /\ n_clusters \in 1..MaxK
    /\ pc = "start"
    /\ df = Unbound
    /\ rt = Unbound
    /\ rtRef = "none"
    /\ load_cache = Absent
    /\ cluster_cache = Absent
    /\ features = <<>>
    /\ threshold = <<0, 0>>
    /\ firstLabels = [set |-> FALSE, labels |-> <<>>, runs |-> 0]
    /\ IdleFetch

\* df = load_data(): @st.cache_data hands out the value just computed on a
\* miss and a fresh copy of the stored one on a hit.
LoadData ==
    /\ pc = "start"
    /\ IF load_cache.present
       THEN df' = load_cache.value /\ UNCHANGED load_cache
       ELSE /\ df' = Table(csv)
            /\ load_cache' = [key |-> <<>>, value |-> Table(csv), present |-> TRUE]
    /\ pc' = "loaded"
    /\ UNCHANGED <<csv, entropy, n_clusters, rt, rtRef, cluster_cache, features,
                   threshold, firstLabels, fetchVars>>

\* rt = add_clusters(df, n_clusters). The cache key is taken from the arguments
\* before the body runs. On a hit the body does not run and rt is a copy of
\* the stored table. On a miss the body runs: fit_predict may raise (nothing
\* is stored, the script run ends with the exception shown); otherwise the
\* Cluster column is set on the argument itself, which is stored and returned.
AddClusters ==
    /\ pc = "loaded"
    /\ IF cluster_cache.present /\ cluster_cache.key = <<df.rows, n_clusters>>
       THEN /\ rt' = cluster_cache.value
            /\ rtRef' = "copy"
            /\ pc' = "clustered"
            /\ UNCHANGED <<df, cluster_cache, features, firstLabels>>
       ELSE /\ features' = Fillna0(df.rows)
            /\ IF KMeansRaises(features', n_clusters)
               THEN /\ pc' = "error"
                    /\ UNCHANGED <<df, rt, rtRef, cluster_cache, firstLabels>>
               ELSE /\ df' = WithColumn(df, "Cluster",
                                fit_predict(features', n_clusters, KMeansRng(entropy)))
                    /\ rtRef' = "df"
                    /\ cluster_cache' = [key |-> <<df.rows, n_clusters>>,
                                         value |-> df', present |-> TRUE]
                    /\ firstLabels' = IF firstLabels.set
                                      THEN [firstLabels EXCEPT !.runs = 2]
                                      ELSE [set |-> TRUE, labels |-> df'.Cluster,
                                            runs |-> 1]
                    /\ pc' = "clustered"
                    /\ UNCHANGED rt
    /\ UNCHANGED <<csv, entropy, n_clusters, load_cache, threshold, fetchVars>>

\* if st.sidebar.checkbox("Performance Prediction", value=True): the threshold
\* and the Performance column, written through the name rt.
PerformancePrediction(checked) ==
    /\ pc = "clustered"
    /\ pc' = "done"
    /\ IF checked
       THEN /\ threshold' = Mean(RT.rows)
            /\ IF rtRef = "df"
               THEN /\ df' = WithColumn(df, "Performance",
                                        assign_performance(df.rows, threshold'))
                    /\ UNCHANGED rt
               ELSE /\ rt' = WithColumn(rt, "Performance",
                                        assign_performance(rt.rows, threshold'))
                    /\ UNCHANGED df
       ELSE UNCHANGED <<df, rt, threshold>>
    /\ UNCHANGED <<csv, entropy, n_clusters, rtRef, load_cache, cluster_cache,
                   features, firstLabels, fetchVars>>

\* A widget interaction: Streamlit runs the script again in the same process;
\* the script's names start unbound, the caches stay.
Rerun ==
    /\ pc \in {"done", "error"}
    /\ pc' = "start"
    /\ df' = Unbound
    /\ rt' = Unbound
    /\ rtRef' = "none"
    /\ features' = <<>>
    /\ threshold' = <<0, 0>>
    /\ UNCHANGED <<csv, entropy, n_clusters, load_cache, cluster_cache,
                   firstLabels, fetchVars>>

\* The server process is started anew: empty caches, a global generator
\* seeded from the system.
Restart ==
    /\ pc \in {"done", "error"}
    /\ pc' = "start"
    /\ df' = Unbound
    /\ rt' = Unbound
    /\ rtRef' = "none"
    /\ features' = <<>>
    /\ threshold' = <<0, 0>>
    /\ load_cache' = Absent
    /\ cluster_cache' = Absent
    /\ entropy' \in 0..MaxEntropy
    /\ UNCHANGED <<csv, n_clusters, firstLabels, fetchVars>>

Next ==
    \/ LoadData
    \/ AddClusters
    \/ \E checked \in BOOLEAN : PerformancePrediction(checked)
    \/ Rerun
    \/ Restart

Spec == Init /\ [][Next]_vars

(***************************************************************************)
(* The Performance Prediction block on its own: rt is any table whose      *)
(* Views cells are missing or in 0..MaxViews, of 0 to MaxRows rows.        *)
(***************************************************************************)
ViewCells == {NaN} \cup 0..MaxViews

PerfInit ==
    /\ csv \in SeqsUpTo({ Record(v, 0, 0) : v \in ViewCells }, MaxRows)
    /\ entropy = 0
    /\ n_clusters = 1
    /\ pc = "clustered"
    /\ df = Unbound
    /\ rt = Table(csv)
    /\ rtRef = "copy"
    /\ load_cache = Absent
    /\ cluster_cache = Absent
    /\ features = <<>>
    /\ threshold = <<0, 0>>
    /\ firstLabels = [set |-> FALSE, labels |-> <<>>, runs |-> 0]
    /\ IdleFetch

PerfNext == \E checked \in BOOLEAN : PerformancePrediction(checked)

PerfSpec == PerfInit /\ [][PerfNext]_vars

(***************************************************************************)
(* fetch_data.py: YouTubeToCSV.run, with fetch_all_videos inlined at the   *)
(* place run calls it. The API's answers are the inputs: whether a request *)
(* raises, how many items a page and its statistics hold, and whether the  *)
(* page names a next one.                                                  *)
(***************************************************************************)

\* Python's None, for max_videos.
None == -1

IdleApp ==
    /\ csv = <<>>
    /\ entropy = 0
    /\ n_clusters = 1
    /\ pc = "idle"
    /\ df = Unbound
    /\ rt = Unbound
    /\ rtRef = "none"
    /\ load_cache = Absent
    /\ cluster_cache = Absent
    /\ features = <<>>
    /\ threshold = <<0, 0>>
    /\ firstLabels = [set |-> FALSE, labels |-> <<>>, runs |-> 0]

\* converter.run(max_videos)
FetchInit ==
    /\ IdleApp
    /\ fpc = "run"
    /\ max_videos \in {None} \cup 0..MaxLimit
    /\ channel_info = "unset"
    /\ videos = <<>>
    /\ processed_count = 0
    /\ next_page_token = 0
    /\ page = NoPage
    /\ requests = 0
    /\ stop = "none"
    /\ fetched = "none"
    /\ youtube = "None"
    /\ csv_path = "none"
    /\ result = "none"

\* Mutant of LimitReached: > in place of >=.
LimitReached_late(limit, count) == limit # None /\ limit # 0 /\ count > limit

\* max_videos and processed_count >= max_videos
LimitReached(limit, count) == limit # None /\ limit # 0 /\ count >= limit

\* if not self.initialize_youtube_client(): return False
InitializeClient(ok) ==
    /\ fpc = "run"
    /\ IF ok
       THEN youtube' = "client" /\ fpc' = "fetch" /\ UNCHANGED result
       ELSE result' = "False" /\ fpc' = "end" /\ UNCHANGED youtube
    /\ UNCHANGED <<max_videos, channel_info, videos, processed_count,
                   next_page_token, page, requests, stop, fetched, csv_path,
                   appVars>>

\* channel_info = self.get_channel_info(); if not channel_info: return None
\* get_channel_info gives None on any exception, a missing channel included.
GetChannelInfo(found) ==
    /\ fpc = "fetch"
    /\ IF found
       THEN channel_info' = "info" /\ fpc' = "loop" /\ UNCHANGED fetched
       ELSE channel_info' = "None" /\ fetched' = "None" /\ fpc' = "unpack"
    /\ UNCHANGED <<max_videos, videos, processed_count, next_page_token, page,
                   requests, stop, youtube, csv_path, result, appVars>>

\* playlistItems().list(...).execute() or videos().list(...).execute() raises:
\* the except clauses log and break.
RequestFails ==
    /\ fpc = "loop"
    /\ requests' = requests + 1
    /\ stop' = "error"
    /\ fpc' = "return"
    /\ UNCHANGED <<max_videos, channel_info, videos, processed_count,
                   next_page_token, page, fetched, youtube, csv_path, result,
                   appVars>>

\* if not pl_response['items']: break
RequestEmptyPage ==
    /\ fpc = "loop"
    /\ requests' = requests + 1
    /\ stop' = "no_items"
    /\ fpc' = "return"
    /\ UNCHANGED <<max_videos, channel_info, videos, processed_count,
                   next_page_token, page, fetched, youtube, csv_path, result,
                   appVars>>

\* A page with items; statistics come back for stats of them, and the page
\* names a next page or not (the last page the channel has does not).
RequestPage(stats, more) ==
    /\ fpc = "loop"
    /\ more => requests + 1 < MaxPages
    /\ requests' = requests + 1
    /\ page' = [left |-> stats, token |-> more]
    /\ fpc' = IF stats = 0 THEN "after_page" ELSE "process"
    /\ UNCHANGED <<max_videos, channel_info, videos, processed_count,
                   next_page_token, stop, fetched, youtube, csv_path, result,
                   appVars>>

\* One turn of for video_data in stats_response['items']: append, count, and
\* break once the limit is reached.
ProcessVideo ==
    /\ fpc = "process"
    /\ videos' = Append(videos, requests)
    /\ processed_count' = processed_count + 1
    /\ page' = [page EXCEPT !.left = @ - 1]
    /\ fpc' = IF LimitReached(max_videos, processed_count') \/ page'.left = 0
              THEN "after_page" ELSE "process"
    /\ UNCHANGED <<max_videos, channel_info, next_page_token, requests, stop,
                   fetched, youtube, csv_path, result, appVars>>

\* Building video_info raises (a statistic int() cannot read): except
\* Exception logs and breaks.
ProcessVideoFails ==
    /\ fpc = "process"
    /\ stop' = "error"
    /\ fpc' = "return"
    /\ UNCHANGED <<max_videos, channel_info, videos, processed_count,
                   next_page_token, page, requests, fetched, youtube, csv_path,
                   result, appVars>>

\* next_page_token = pl_response.get('nextPageToken')
\* if not next_page_token or (max_videos and processed_count >= max_videos): break
CheckNextPage ==
    /\ fpc = "after_page"
    /\ next_page_token' = IF page.token THEN requests + 1 ELSE 0
    /\ IF ~page.token
       THEN stop' = "no_token" /\ fpc' = "return"
       ELSE IF LimitReached(max_videos, processed_count)
            THEN stop' = "limit" /\ fpc' = "return"
            ELSE fpc' = "loop" /\ UNCHANGED stop
    /\ UNCHANGED <<max_videos, channel_info, videos, processed_count, page,
                   requests, fetched, youtube, csv_path, result, appVars>>

\* return videos, channel_info
ReturnVideos ==
    /\ fpc = "return"
    /\ fetched' = "pair"
    /\ fpc' = "unpack"
    /\ UNCHANGED <<max_videos, channel_info, videos, processed_count,
                   next_page_token, page, requests, stop, youtube, csv_path,
                   result, appVars>>

\* videos, channel_info = self.fetch_all_videos(max_videos): unpacking the
\* single None of line 88 raises TypeError, which run does not catch.
\* if not videos: return False
Unpack ==
    /\ fpc = "unpack"
    /\ IF fetched = "None"
       THEN result' = "raised" /\ fpc' = "end"
       ELSE IF videos = <<>>
            THEN result' = "False" /\ fpc' = "end"
            ELSE fpc' = "save" /\ UNCHANGED result
    /\ UNCHANGED <<max_videos, channel_info, videos, processed_count,
                   next_page_token, page, requests, stop, fetched, youtube,
                   csv_path, appVars>>

\* csv_path = self.save_to_csv(videos, channel_info): the path, or None on any
\* exception. return True if csv_path else False
SaveToCsv(ok) ==
    /\ fpc = "save"
    /\ csv_path' = IF ok THEN "path" ELSE "None"
    /\ result' = IF ok THEN "True" ELSE "False"
    /\ fpc' = "end"
    /\ UNCHANGED <<max_videos, channel_info, videos, processed_count,
                   next_page_token, page, requests, stop, fetched, youtube,
                   appVars>>

FetchNext ==
    \/ \E ok \in BOOLEAN : InitializeClient(ok)
    \/ \E found \in BOOLEAN : GetChannelInfo(found)
    \/ RequestFails
    \/ RequestEmptyPage
    \/ \E stats \in 0..MaxPageItems, more \in BOOLEAN : RequestPage(stats, more)
    \/ ProcessVideo
    \/ ProcessVideoFails
    \/ CheckNextPage
    \/ ReturnVideos
    \/ Unpack
    \/ \E ok \in BOOLEAN : SaveToCsv(ok)

FetchSpec == FetchInit /\ [][FetchNext]_vars

(***************************************************************************)
(* Properties.                                                             *)
(***************************************************************************)
RECURSIVE Total(_)
Total(s) == IF s = <<>> THEN 0 ELSE Head(s) + Total(Tail(s))

ViewsOf(t) == [i \in 1..Len(t.rows) |-> t.rows[i].Views]

AllPopulated(t) == \A i \in 1..Len(t.rows) : t.rows[i].Views # NaN

AllEqualViews(t) ==
    \A i, j \in 1..Len(t.rows) : t.rows[i].Views = t.rows[j].Views

\* The Performance block has run on rt.
Labelled == pc = "done" /\ "Performance" \in RT.columns

\* The add_clusters call of this script run has been made.
Called == pc \in {"clustered", "done", "error"}

\* C1: on a non-empty table whose views are all populated, the Performance
\* block labels a record "High" exactly when its views are at least the
\* arithmetic mean of the views of all records (views * n >= sum), and "Low"
\* otherwise; views equal to the mean give "High".
C1_HighIffAtLeastMean ==
    (Labelled /\ Len(RT.rows) > 0 /\ AllPopulated(RT)) =>
        /\ Len(RT.Performance) = Len(RT.rows)
        /\ \A i \in 1..Len(RT.rows) :
              /\ RT.Performance[i] \in {"High", "Low"}
              /\ RT.Performance[i] = "High" <=>
                    RT.rows[i].Views * Len(RT.rows) >= Total(ViewsOf(RT))

\* Three populated records, not all equal, one of them exactly at the mean
\* and labelled "High".
C1_Witness ==
    /\ Labelled /\ Len(RT.rows) = 3 /\ AllPopulated(RT) /\ ~AllEqualViews(RT)
    /\ \E i \in 1..3 : /\ RT.rows[i].Views * 3 = Total(ViewsOf(RT))
                       /\ RT.Performance[i] = "High"
    /\ \E i \in 1..3 : RT.Performance[i] = "Low"

C3_LabelsInRange ==
    (Called /\ 1 <= n_clusters /\ n_clusters <= Len(csv)) =>
        /\ pc # "error"
        /\ "Cluster" \in RT.columns
        /\ Len(RT.Cluster) = Len(csv)
        /\ \A i \in 1..Len(csv) : RT.Cluster[i] \in 0..(n_clusters - 1)

\* Three records in two clusters, both labels in use.
C3_Witness ==
    /\ pc = "clustered" /\ Len(csv) = 3 /\ n_clusters = 2
    /\ \E i, j \in 1..3 : RT.Cluster[i] = 0 /\ RT.Cluster[j] = 1

C5_TooFewRecordsRaises ==
    (Called /\ (Len(csv) = 0 \/ n_clusters > Len(csv))) =>
        /\ pc = "error"
        /\ df = Table(csv)
        /\ rtRef = "none"
        /\ rt = Unbound
        /\ ~cluster_cache.present

\* k exceeds a non-empty table's size and the run has ended in the error state.
C5_Witness ==
    /\ pc = "error" /\ Len(csv) >= 1 /\ n_clusters > Len(csv)
    /\ features = Fillna0(csv)

\* C6 (as claimed): after add_clusters and the Performance block the table
\* they were given, df, has the columns and values it was loaded with, and
\* the result is another object.
C6_InputUnchanged ==
    pc \in {"clustered", "done"} => (df = Table(csv) /\ rtRef # "df")

\* C7: every execution of add_clusters on the same records, in the same
\* order, with the same k gives the labels the first execution gave, whatever
\* process runs it and whether the result comes from the cache or from the
\* body.
C7_Deterministic ==
    pc \in {"clustered", "done"} =>
        (firstLabels.set /\ RT.Cluster = firstLabels.labels)

\* The body has run a second time (after a restart) and both labels are in
\* use.
C7_Witness ==
    /\ pc = "clustered" /\ rtRef = "df" /\ firstLabels.runs = 2
    /\ \E i, j \in 1..Len(csv) : RT.Cluster[i] # RT.Cluster[j]

ZeroFilled(rows) ==
    [i \in 1..Len(rows) |->
        << IF rows[i].Views = NaN THEN 0 ELSE rows[i].Views,
           IF rows[i].Likes = NaN THEN 0 ELSE rows[i].Likes,
           IF rows[i].Comments = NaN THEN 0 ELSE rows[i].Comments >>]

ClusterFeaturesZeroFilled ==
    (Called /\ features # <<>>) => features = ZeroFilled(csv)

\* C8 (as claimed): a missing value counts as zero, in the clustering
\* features and in the Performance block, whose mean is the sum of the views
\* (missing as 0) over the number of all records and whose comparison takes a
\* missing views value as 0.
C8_MissingIsZero ==
    /\ ClusterFeaturesZeroFilled
    /\ Labelled =>
          LET z == [i \in 1..Len(RT.rows) |-> ZeroFilled(RT.rows)[i][1]]
          IN  /\ threshold[1] * Len(z) = Total(z) * threshold[2]
              /\ \A i \in 1..Len(z) :
                    RT.Performance[i] = "High" <=> z[i] * Len(z) >= Total(z)

\* C8 (amended): a missing value counts as zero in the clustering features.
\* In the Performance block a record with missing views is left out of the
\* mean, which is the sum of the populated views over the number of records
\* with populated views, and is labelled "Low"; a populated record is "High"
\* exactly when its views are at least that mean.
C8_MissingSkipped ==
    /\ ClusterFeaturesZeroFilled
    /\ Labelled =>
          LET pop == { i \in 1..Len(RT.rows) : RT.rows[i].Views # NaN }
              z   == [i \in 1..Len(RT.rows) |-> ZeroFilled(RT.rows)[i][1]]
          IN  /\ threshold = <<Total(z), Cardinality(pop)>>
              /\ \A i \in 1..Len(z) :
                    RT.Performance[i] = "High" <=>
                        (i \in pop /\ z[i] * Cardinality(pop) >= Total(z))

\* A table clustered with a missing likes value and labelled with a missing
\* views value, where a populated record below the mean of the populated
\* views would be at or above the mean taken with the missing one as 0.
C8_Witness ==
    /\ Labelled /\ rtRef = "df"
    /\ \E i \in 1..Len(csv) : csv[i].Likes = NaN /\ features[i][2] = 0
    /\ \E i \in 1..Len(csv) : csv[i].Views = NaN /\ RT.Performance[i] = "Low"
    /\ \E i \in 1..Len(csv) :
          /\ csv[i].Views # NaN /\ RT.Performance[i] = "Low"
          /\ csv[i].Views * Len(csv) >= threshold[1]

\* C9 (as claimed): run never raises, and gives False whenever a stage
\* failed: no client, no channel information, no videos, or no file saved.
C9_RunNeverRaises ==
    fpc = "end" =>
        /\ result \in {"True", "False"}
        /\ (youtube = "None" \/ channel_info = "None" \/ videos = <<>>
            \/ csv_path = "None") => result = "False"

\* C10: with a positive max_videos the list never holds more than max_videos
\* videos, and once the count has reached max_videos no further page is
\* requested; without a limit the loop is left only at a page without items
\* or without a next page token, or at an error; after an error no request
\* is made again and the videos collected so far are what is returned.
C10_FetchBounded ==
    /\ [](max_videos > 0 => Len(videos) <= max_videos)
    /\ [](Len(videos) = processed_count)
    /\ []((fetched = "pair" /\ ~LimitReached(max_videos, processed_count))
              => stop \in {"no_items", "no_token", "error"})
    /\ [][ /\ (max_videos > 0 /\ processed_count >= max_videos)
                 => requests' = requests
           /\ stop = "error" => (requests' = requests /\ videos' = videos)
         ]_vars

\* Three videos asked for and collected over two pages, the last of which
\* named a further page that was not requested.
C10_Witness ==
    /\ fetched = "pair" /\ stop = "limit" /\ max_videos = 3
    /\ Len(videos) = 3 /\ requests = 2 /\ page.token

====
